---- MODULE Spec2Model ----
(***************************************************************************)
(* Model of the Land Constraint Checker (src/land_constraint_checker.py):  *)
(* the upload handling of one Streamlit script run, the session state it   *)
(* keeps between runs (user_layers, view_state), and the two pure helpers  *)
(* smart_simplify and get_bounds.                                          *)
(*                                                                         *)
(* Numbers.  Coordinates are floats in the code.  Here a float is a record *)
(* [nan, v]: nan says the value is IEEE NaN, v is the value in units of    *)
(* 1/200 degree (0.005).  Every coordinate of an input is an even number   *)
(* of units (a multiple of 0.01 degree), so the midpoint (a + b) / 2 is    *)
(* exact.  Simplification tolerances are in units of 0.0001 degree.        *)
(*                                                                         *)
(* Runs.  Streamlit executes the script from the top once per widget       *)
(* interaction; pc follows one run through its upload handling, its        *)
(* sidebar and its render.  tmp_exists holds the temporary resources of    *)
(* the current run only (mkdtemp and NamedTemporaryFile give fresh names   *)
(* in every run).  loaded_cache is st.cache_data of load_layer: the body   *)
(* of load_layer runs, and can raise, only for a key not yet computed; on  *)
(* a hit Streamlit replays what the body showed.                           *)
(*                                                                         *)
(* Geometry.  A collection is its feature count, its total_bounds and the  *)
(* state of its geometry column (as read, or simplified with a tolerance); *)
(* total_bounds is kept as read.                                           *)
(*                                                                         *)
(* Strings.  A file name is the sequence of its tokens, <<"a", ".", "zip">>*)
(* for "a.zip", so that split('.')[-1] and the f-string of the gpkg branch *)
(* are computed and not assumed.                                           *)
(***************************************************************************)
EXTENDS Integers, Sequences, FiniteSets, TLC

VARIABLES
    user_layers,        \* st.session_state.user_layers: sequence of layers
    view_state,         \* st.session_state.view_state
    uploaded_file,      \* the file_uploader widget's value (kept across runs)
    gpkg_layer_select,  \* the selectbox widget's stored choice
    load_clicked,       \* the click of "Load Selected Layer" started this run
    zoom_clicked,       \* index of the zoom button whose click started this
                        \* run, 0: none
    visible_base,       \* keys of the base-layer checkboxes that are ticked
    base_files,         \* the data directory: path -> "missing"|"corrupt"|"ok"
    load_button,        \* the last run rendered the "Load Selected Layer" button
    loaded_cache,       \* st.cache_data of load_layer: the keys already computed
    pc,                 \* position of the script run
    messages,           \* st.error / st.warning / st.success of this run
    raised,             \* where an exception was raised (and caught) in this run
    tmp_exists,         \* temporary resources this run created that still exist
    deck_layers,        \* the layers handed to pydeck by the last render
    pre_layers,         \* user_layers when the current run started
    pre_view,           \* view_state when the current run started
    arg,                \* argument of the helper under test (helper specs)
    ret,                \* its result
    prev_arg,           \* argument of the call before
    prev_ret            \* result of the call before

vars == <<user_layers, view_state, uploaded_file, gpkg_layer_select,
          load_clicked, zoom_clicked, visible_base, base_files, load_button,
          loaded_cache, pc, messages, raised, tmp_exists, deck_layers,
          pre_layers, pre_view, arg, ret, prev_arg, prev_ret>>

session_vars == <<user_layers, view_state, uploaded_file, gpkg_layer_select,
                  load_clicked, zoom_clicked, visible_base,
                  load_button, loaded_cache, messages, raised, tmp_exists,
                  deck_layers, pre_layers, pre_view>>

helper_vars == <<arg, ret, prev_arg, prev_ret>>

-----------------------------------------------------------------------------
(* Bounds of the model *)

\* feature counts 0..MaxExtra and Threshold-MaxExtra..Threshold+MaxExtra
MaxExtra == 12
\* box extents within MaxDelta hundredths of a degree of each breakpoint
MaxDelta == 1

-----------------------------------------------------------------------------
(* Floats *)

F(x) == [nan |-> FALSE, v |-> x]
NaN == [nan |-> TRUE, v |-> 0]

FAdd(a, b) == IF a.nan \/ b.nan THEN NaN ELSE F(a.v + b.v)
FSub(a, b) == IF a.nan \/ b.nan THEN NaN ELSE F(a.v - b.v)
\* x / 2; the operands of the model are even
FHalf(a) == IF a.nan THEN NaN ELSE F(a.v \div 2)
FAbs(a) == IF a.nan THEN NaN ELSE F(IF a.v < 0 THEN -a.v ELSE a.v)
\* a > b; every comparison with NaN is false
FGt(a, b) == ~a.nan /\ ~b.nan /\ a.v > b.v
\* Python's max(a, b): b only if b > a
FMax(a, b) == IF FGt(b, a) THEN b ELSE a

-----------------------------------------------------------------------------
(* Geometry collections *)

\* GeoDataFrame.total_bounds of a collection with features
Box(minx, miny, maxx, maxy) == <<F(minx), F(miny), F(maxx), F(maxy)>>
\* GeoDataFrame.total_bounds of a collection without features: four NaN
NaNBox == <<NaN, NaN, NaN, NaN>>

OriginalGeometry == [simplified |-> FALSE, tolerance |-> 0]

\* A GeoDataFrame as read and reprojected: its length, its total_bounds,
\* whether GeoSeries.simplify raises on it, and its geometry column.
Gdf(id, n, bounds, raises) ==
    [id |-> id, n |-> n, total_bounds |-> bounds, simplify_raises |-> raises,
     geometry |-> OriginalGeometry]

-----------------------------------------------------------------------------
(* smart_simplify *)

tol_small == 1
tol_large == 20
feature_threshold == 5000

choose_tolerance_ge(gdf, small, large) ==
    IF gdf.n >= feature_threshold THEN large ELSE small

\* tol = tol_large if geom_count > 5000 else tol_small
choose_tolerance(gdf, small, large) ==
    IF gdf.n > feature_threshold THEN large ELSE small

\* the except branch: st.warning(...) is issued
simplify_warns(gdf) == gdf.simplify_raises

\* the geometry column assigned although simplify failed
smart_simplify_overwrites(gdf) ==
    IF gdf.simplify_raises
    THEN [gdf EXCEPT !.geometry = [simplified |-> TRUE, tolerance |-> 0]]
    ELSE [gdf EXCEPT !.geometry =
             [simplified |-> TRUE,
              tolerance |-> choose_tolerance(gdf, tol_small, tol_large)]]

\* the collection returned: the geometry column is assigned only when
\* simplify returned
smart_simplify(gdf) ==
    IF gdf.simplify_raises
    THEN gdf
    ELSE [gdf EXCEPT !.geometry =
             [simplified |-> TRUE,
              tolerance |-> choose_tolerance(gdf, tol_small, tol_large)]]

-----------------------------------------------------------------------------
(* get_bounds *)

zoom_for_ge(max_diff) ==
    IF FGt(max_diff, F(2000)) \/ max_diff = F(2000) THEN 5
    ELSE IF FGt(max_diff, F(1000)) THEN 6
    ELSE IF FGt(max_diff, F(400)) THEN 7
    ELSE IF FGt(max_diff, F(200)) THEN 8
    ELSE IF FGt(max_diff, F(100)) THEN 9
    ELSE IF FGt(max_diff, F(20)) THEN 11
    ELSE IF FGt(max_diff, F(10)) THEN 12
    ELSE 13

\* the if/elif chain: 10, 5, 2, 1, 0.5, 0.1, 0.05 degrees
zoom_for(max_diff) ==
    IF FGt(max_diff, F(2000)) THEN 5
    ELSE IF FGt(max_diff, F(1000)) THEN 6
    ELSE IF FGt(max_diff, F(400)) THEN 7
    ELSE IF FGt(max_diff, F(200)) THEN 8
    ELSE IF FGt(max_diff, F(100)) THEN 9
    ELSE IF FGt(max_diff, F(20)) THEN 11
    ELSE IF FGt(max_diff, F(10)) THEN 12
    ELSE 13

max_diff_of(bounds) ==
    LET lon_diff == FAbs(FSub(bounds[3], bounds[1]))
        lat_diff == FAbs(FSub(bounds[4], bounds[2]))
    IN  FMax(lon_diff, lat_diff)

get_bounds(gdf) ==
    LET bounds == gdf.total_bounds
        center_lon == FHalf(FAdd(bounds[1], bounds[3]))
        center_lat == FHalf(FAdd(bounds[2], bounds[4]))
    IN  [latitude |-> center_lat, longitude |-> center_lon,
         zoom |-> zoom_for(max_diff_of(bounds))]

-----------------------------------------------------------------------------
(* Configuration and session state *)

\* BASE_GEOPACKAGES: one container shown by its display name and the
\* container of the sensitive group, shown layer by layer (its first layer).
\* The three group tests of the sidebar are kept as evaluated.
BASE_GEOPACKAGES ==
    << [path |-> "custom_repository/data/AONB.gpkg",
        layers |-> <<"environmental_designations__aonb">>,
        colors |-> <<"blue">>, display_name |-> "AONB",
        in_env |-> TRUE, in_scl |-> FALSE, in_sensitive |-> FALSE],
       [path |-> "custom_repository/data/Sensitive_Parties.gpkg",
        layers |-> <<"canals_on_the_trust_network">>,
        colors |-> <<"pink">>, display_name |-> "Sensitive Parties",
        in_env |-> FALSE, in_scl |-> FALSE, in_sensitive |-> TRUE] >>

COLOR_MAP ==
    [c \in {"blue", "pink"} |->
        CASE c = "blue" -> <<0, 0, 255, 140>>
          [] c = "pink" -> <<255, 192, 203, 140>>]

BasePaths == {BASE_GEOPACKAGES[i].path : i \in 1..Len(BASE_GEOPACKAGES)}

\* st.session_state.view_state = {'latitude': 52, 'longitude': -1, 'zoom': 6}
InitialView == [latitude |-> F(10400), longitude |-> F(-200), zoom |-> 6]

\* the colour every uploaded layer gets
UserColor == <<255, 0, 255, 180>>

-----------------------------------------------------------------------------
(* Uploads *)

\* collections an uploaded file can hold
GPoint == Gdf("point", 1, Box(-200, 10400, -200, 10400), FALSE)
GEmpty == Gdf("empty", 0, NaNBox, FALSE)
GRough == Gdf("rough", 3, Box(0, 10000, 200, 10100), TRUE)
GWide == Gdf("wide", 5001, Box(-600, 10000, 1800, 10400), FALSE)

\* one readable layer of a file, and one that read_file or to_crs rejects
Readable(l, gdf) == [layer |-> l, readable |-> TRUE, gdf |-> gdf]
Unreadable(l) == [layer |-> l, readable |-> FALSE, gdf |-> GPoint]

File(name, kind, layers) == [name |-> name, kind |-> kind, layers |-> layers]

\* the uploader holds no file
NoFile == File(<<>>, "none", <<>>)

\* kind "zip": an archive, layers are its .shp members in glob order;
\* kind "bad": bytes the format's reader rejects
ZipUploads ==
    { File(<<"a", ".", "zip">>, "zip", <<Readable("", GPoint)>>),
      File(<<"a", ".", "zip">>, "zip", <<Readable("", GEmpty)>>),
      File(<<"a", ".", "zip">>, "zip", <<>>),
      File(<<"a", ".", "zip">>, "bad", <<>>),
      File(<<"b", ".", "ZIP">>, "zip", <<Unreadable("")>>) }

ShpUploads ==
    { File(<<"c", ".", "shp">>, "shp", <<Readable("", GRough)>>),
      File(<<"c", ".", "shp">>, "shp", <<Unreadable("")>>) }

GpkgUploads ==
    { File(<<"d", ".", "gpkg">>, "gpkg",
           <<Readable("L1", GWide), Unreadable("L2")>>),
      File(<<"d", ".", "gpkg">>, "bad", <<>>) }

Uploads == ZipUploads \cup ShpUploads \cup GpkgUploads

\* str.lower() on the extensions that occur
Lower(tok) ==
    CASE tok = "ZIP" -> "zip"
      [] tok = "SHP" -> "shp"
      [] tok = "GPKG" -> "gpkg"
      [] OTHER -> tok

\* uploaded_file.name.split('.')[-1].lower()
tmp_ext(name) ==
    LET dots == {i \in 1..Len(name) : name[i] = "."}
        last == IF dots = {} THEN 0
                ELSE CHOOSE i \in dots : \A j \in dots : j <= i
        tail == SubSeq(name, last + 1, Len(name))
    IN  [i \in 1..Len(tail) |-> Lower(tail[i])]

-----------------------------------------------------------------------------
(* Initial states *)

InitSession ==
    /\ user_layers = <<>>
    /\ view_state = InitialView
    /\ uploaded_file = NoFile
    /\ gpkg_layer_select = ""
    /\ load_clicked = FALSE
    /\ zoom_clicked = 0
    /\ visible_base = {}
    /\ load_button = FALSE
    /\ loaded_cache = {}
    /\ messages = {}
    /\ raised = {}
    /\ tmp_exists = {}
    /\ deck_layers = <<>>
    /\ pre_layers = <<>>
    /\ pre_view = InitialView

-----------------------------------------------------------------------------
(* The helpers on their own: every call of smart_simplify *)

FeatureCounts ==
    (0..MaxExtra)
        \cup ((feature_threshold - MaxExtra)..(feature_threshold + MaxExtra))

SimplifyInputs ==
    { Gdf("in", n, IF n = 0 THEN NaNBox ELSE Box(0, 10000, 200, 10100), r) :
        n \in FeatureCounts, r \in BOOLEAN }

InitSimplify ==
    /\ InitSession
    /\ base_files = [p \in BasePaths |-> "missing"]
    /\ pc = "call"
    /\ arg \in SimplifyInputs
    /\ ret = [gdf |-> arg, warned |-> FALSE]
    /\ prev_arg = <<>>
    /\ prev_ret = <<>>

CallSmartSimplify ==
    /\ pc = "call"
    /\ ret' = [gdf |-> smart_simplify(arg), warned |-> simplify_warns(arg)]
    /\ pc' = "return"
    /\ UNCHANGED <<arg, prev_arg, prev_ret, session_vars, base_files>>

NextSimplifyInput ==
    /\ pc = "return"
    /\ \E g \in SimplifyInputs :
          /\ arg' = g
          /\ ret' = [gdf |-> g, warned |-> FALSE]
    /\ pc' = "call"
    /\ UNCHANGED <<prev_arg, prev_ret, session_vars, base_files>>

NextSimplify == CallSmartSimplify \/ NextSimplifyInput

SpecSimplify == InitSimplify /\ [][NextSimplify]_vars

-----------------------------------------------------------------------------
(* The helpers on their own: every call of get_bounds, with the call before *)

Breakpoints == {10, 20, 100, 200, 400, 1000, 2000}

\* widths: a point, 12 degrees, and the neighbourhood of every breakpoint
Extents ==
    {0, 2400} \cup
    { b + 2 * d : b \in Breakpoints, d \in (0 - MaxDelta)..MaxDelta }

Heights == {0, 102, 2002}

BoundsInputs ==
    { Gdf("in", 1, Box(x, 10000, x + w, 10000 + h), FALSE) :
        x \in {-600, 0}, w \in Extents, h \in Heights }
    \cup { Gdf("in", 0, NaNBox, FALSE) }

InitBounds ==
    /\ InitSession
    /\ base_files = [p \in BasePaths |-> "missing"]
    /\ pc = "call"
    /\ arg \in BoundsInputs
    /\ ret = InitialView
    /\ prev_arg = <<>>
    /\ prev_ret = <<>>

CallGetBounds ==
    /\ pc = "call"
    /\ ret' = get_bounds(arg)
    /\ pc' = "return"
    /\ UNCHANGED <<arg, prev_arg, prev_ret, session_vars, base_files>>

NextBoundsInput ==
    /\ pc = "return"
    /\ \E g \in BoundsInputs : arg' = g
    /\ prev_arg' = <<arg>>
    /\ prev_ret' = <<ret>>
    /\ ret' = InitialView
    /\ pc' = "call"
    /\ UNCHANGED <<session_vars, base_files>>

NextBounds == CallGetBounds \/ NextBoundsInput

SpecBounds == InitBounds /\ [][NextBounds]_vars

-----------------------------------------------------------------------------
(* Claims about the helpers *)

\* C5: for every feature count n, smart_simplify simplifies with the large
\* tolerance (0.002) if n > 5000 and with the small tolerance (0.0001)
\* otherwise; n = 5000 and n = 0 use the small one.
C5_ToleranceByFeatureCount ==
    (pc = "return" /\ ~arg.simplify_raises) =>
        /\ ret.gdf.geometry.simplified
        /\ arg.n > 5000 => ret.gdf.geometry.tolerance = 20
        /\ arg.n <= 5000 => ret.gdf.geometry.tolerance = 1
        /\ arg.n \in {0, 5000} => ret.gdf.geometry.tolerance = 1

\* a collection of exactly 5000 features has been simplified
C5_Witness ==
    /\ pc = "return"
    /\ arg.n = 5000
    /\ ~arg.simplify_raises
    /\ ret.gdf.geometry.simplified

\* the zoom table of the specification, on an extent in units of 1/200 degree
C6_TableZoom(d) ==
    IF d > 2000 THEN 5
    ELSE IF d > 1000 THEN 6
    ELSE IF d > 400 THEN 7
    ELSE IF d > 200 THEN 8
    ELSE IF d > 100 THEN 9
    ELSE IF d > 20 THEN 11
    ELSE IF d > 10 THEN 12
    ELSE 13

C6_Width(g) == g.total_bounds[3].v - g.total_bounds[1].v
C6_Height(g) == g.total_bounds[4].v - g.total_bounds[2].v
C6_Extent(g) ==
    IF C6_Width(g) >= C6_Height(g) THEN C6_Width(g) ELSE C6_Height(g)

\* C6: for every bounding box get_bounds returns the midpoint of the box in
\* each axis and the zoom the table gives for the larger of width and height
\* (strict breakpoints); so the zoom never increases as the extent grows, a
\* single point gives zoom 13 centred on the point, and 12 degrees give 5.
C6_BoundsToView ==
    (pc = "return" /\ arg.n > 0) =>
        /\ ~ret.latitude.nan /\ ~ret.longitude.nan
        /\ 2 * ret.longitude.v = arg.total_bounds[1].v + arg.total_bounds[3].v
        /\ 2 * ret.latitude.v = arg.total_bounds[2].v + arg.total_bounds[4].v
        /\ ret.zoom = C6_TableZoom(C6_Extent(arg))
        /\ (prev_arg # <<>> /\ prev_arg[1].n > 0
                /\ C6_Extent(prev_arg[1]) <= C6_Extent(arg))
              => ret.zoom <= prev_ret[1].zoom
        /\ (C6_Width(arg) = 0 /\ C6_Height(arg) = 0) =>
              /\ ret.zoom = 13
              /\ ret.longitude = arg.total_bounds[1]
              /\ ret.latitude = arg.total_bounds[2]
        /\ C6_Width(arg) = 2400 => ret.zoom = 5

\* a view computed for an extent of exactly 10 degrees, after a smaller one
C6_Witness ==
    /\ pc = "return"
    /\ arg.n > 0
    /\ C6_Extent(arg) = 2000
    /\ ret.zoom = 6
    /\ prev_arg # <<>>
    /\ prev_arg[1].n > 0
    /\ C6_Extent(prev_arg[1]) < 2000

-----------------------------------------------------------------------------
(* The script run: upload handling *)

Msg(level, text, about) == [level |-> level, text |-> text, about |-> about]

SimplifyWarning == Msg("warning", "Geometry simplification failed", "")
ShpWarning == Msg("warning", "Standalone .shp file detected", "")
ShpTip == Msg("info", "Zip all shapefile components together", "")
ShpError == Msg("error", "Error reading standalone .shp file", "")
NoShpError == Msg("error", "No .shp file found in the zip.", "")
FileError == Msg("error", "Error reading file", "")
Success == Msg("success", "loaded successfully", "")
BaseError(layer_name) == Msg("error", "Error loading", layer_name)

\* what the upload handling of one run leaves behind
Outcome(layers, view, msgs, exc, tmp, uncaught) ==
    [layers |-> layers, view |-> view, messages |-> msgs, raised |-> exc,
     tmp |-> tmp, uncaught |-> uncaught]

\* any(l['name'] == layer_name for l in st.session_state.user_layers)
has_layer(layers, layer_name) ==
    \E i \in 1..Len(layers) : layers[i].name = layer_name

\* the st.warning of smart_simplify, when it is issued
simplify_messages(gdf) ==
    IF simplify_warns(gdf) THEN {SimplifyWarning} ELSE {}

new_layer(layer_name, gdf) ==
    [name |-> layer_name, data |-> gdf, color |-> UserColor]

\* the append without the guard on the name
register_layer_unguarded(layers, view, msgs, layer_name, gdf) ==
    [layers |-> Append(layers, new_layer(layer_name, gdf)),
     view |-> get_bounds(gdf), messages |-> msgs \cup {Success}]

\* the view set after the guard instead of inside it
register_layer_view_outside(layers, view, msgs, layer_name, gdf) ==
    IF ~has_layer(layers, layer_name)
    THEN [layers |-> Append(layers, new_layer(layer_name, gdf)),
          view |-> get_bounds(gdf), messages |-> msgs \cup {Success}]
    ELSE [layers |-> layers, view |-> get_bounds(gdf), messages |-> msgs]

\* if not any(...): append, st.success, view_state = get_bounds(gdf)
register_layer(layers, view, msgs, layer_name, gdf) ==
    IF ~has_layer(layers, layer_name)
    THEN [layers |-> Append(layers, new_layer(layer_name, gdf)),
          view |-> get_bounds(gdf), messages |-> msgs \cup {Success}]
    ELSE [layers |-> layers, view |-> view, messages |-> msgs]

\* gdf = smart_simplify(gdf), then the registration
simplify_and_register(layers, view, msgs, layer_name, gdf) ==
    register_layer(layers, view, msgs \cup simplify_messages(gdf),
                   layer_name, smart_simplify(gdf))

\* the exception leaves the script
upload_except_uncaught(layers, view, msgs, tmp) ==
    Outcome(layers, view, msgs, {"upload"}, tmp, TRUE)

\* except Exception as e: st.error(f"Error reading file: {e}")
upload_except(layers, view, msgs, tmp) ==
    Outcome(layers, view, msgs \cup {FileError}, {"upload"}, tmp, FALSE)

\* tmp_ext == 'shp'.  The payload copy is made with delete=False and is not
\* unlinked.
shp_branch(f, layers, view) ==
    LET msgs == {ShpWarning, ShpTip}
        tmp == {"payload"}
        entry == f.layers[1]
    IN  IF ~entry.readable
        THEN Outcome(layers, view, msgs \cup {ShpError}, {"upload"}, tmp, FALSE)
        ELSE LET r == simplify_and_register(layers, view, msgs, f.name,
                                            entry.gdf)
             IN  Outcome(r.layers, r.view, r.messages, {}, tmp, FALSE)

\* the zip branch with the "no .shp" case taken for an archive that has one
zip_branch_no_shp_check(f, layers, view) ==
    LET tmp == {"payload"}
    IN  IF f.kind # "zip"
        THEN upload_except(layers, view, {}, tmp)
        ELSE IF f.layers = <<>> \/ ~f.layers[1].readable
        THEN upload_except(layers, view, {}, tmp \cup {"extract_dir"})
        ELSE LET r == simplify_and_register(layers, view, {}, f.name,
                                            f.layers[1].gdf)
             IN  Outcome(r.layers, r.view, r.messages, {}, tmp, FALSE)

\* tmp_ext == 'zip'.  ZipFile raises before mkdtemp on bytes that are no
\* archive; shutil.rmtree is the last statement of the with block, which an
\* exception from read_file or to_crs skips.
zip_branch(f, layers, view) ==
    LET tmp == {"payload"}
    IN  IF f.kind # "zip"
        THEN upload_except(layers, view, {}, tmp)
        ELSE IF f.layers = <<>>
        THEN Outcome(layers, view, {NoShpError}, {}, tmp, FALSE)
        ELSE IF ~f.layers[1].readable
        THEN upload_except(layers, view, {}, tmp \cup {"extract_dir"})
        ELSE LET r == simplify_and_register(layers, view, {}, f.name,
                                            f.layers[1].gdf)
             IN  Outcome(r.layers, r.view, r.messages, {}, tmp, FALSE)

\* fiona.listlayers(tmp_path)
layers_in_gpkg(f) == [i \in 1..Len(f.layers) |-> f.layers[i].layer]

\* st.selectbox("Select layer", layers_in_gpkg): the stored choice if it is
\* an option, else the first option
selectbox(options, stored) ==
    IF \E i \in 1..Len(options) : options[i] = stored THEN stored
    ELSE options[1]

\* the load done on every run, button or not
gpkg_branch_eager(f, layers, view, layer_sel, clicked) ==
    LET tmp == {"payload"}
    IN  IF f.kind # "gpkg"
        THEN upload_except(layers, view, {}, tmp)
        ELSE LET entry == CHOOSE e \in {f.layers[i] : i \in 1..Len(f.layers)} :
                              e.layer = layer_sel
             IN  IF ~entry.readable
                 THEN upload_except(layers, view, {}, tmp)
                 ELSE LET r == simplify_and_register(
                                   layers, view, {},
                                   f.name \o <<"-", layer_sel>>, entry.gdf)
                      IN  Outcome(r.layers, r.view, r.messages, {}, tmp, FALSE)

\* tmp_ext == 'gpkg'
gpkg_branch(f, layers, view, layer_sel, clicked) ==
    LET tmp == {"payload"}
    IN  IF f.kind # "gpkg"
        THEN upload_except(layers, view, {}, tmp)
        ELSE IF ~clicked
        THEN Outcome(layers, view, {}, {}, tmp, FALSE)
        ELSE LET entry == CHOOSE e \in {f.layers[i] : i \in 1..Len(f.layers)} :
                              e.layer = layer_sel
             IN  IF ~entry.readable
                 THEN upload_except(layers, view, {}, tmp)
                 ELSE LET r == simplify_and_register(
                                   layers, view, {},
                                   f.name \o <<"-", layer_sel>>, entry.gdf)
                      IN  Outcome(r.layers, r.view, r.messages, {}, tmp, FALSE)

\* the session after the upload handling
Apply(out) ==
    /\ user_layers' = out.layers
    /\ view_state' = out.view
    /\ messages' = out.messages
    /\ raised' = out.raised
    /\ tmp_exists' = out.tmp
    /\ pc' = IF out.uncaught THEN "crashed" ELSE "sidebar"

\* if uploaded_file: is false
HandleNoUpload ==
    /\ pc = "upload"
    /\ uploaded_file = NoFile
    /\ pc' = "sidebar"
    /\ load_button' = FALSE
    /\ gpkg_layer_select' = ""
    /\ UNCHANGED <<user_layers, view_state, uploaded_file, load_clicked,
                   zoom_clicked, visible_base, base_files, loaded_cache,
                   messages, raised, tmp_exists, deck_layers, pre_layers,
                   pre_view, helper_vars>>

HandleShp ==
    /\ pc = "upload"
    /\ uploaded_file # NoFile
    /\ tmp_ext(uploaded_file.name) = <<"shp">>
    /\ Apply(shp_branch(uploaded_file, user_layers, view_state))
    /\ load_button' = FALSE
    /\ gpkg_layer_select' = ""
    /\ UNCHANGED <<uploaded_file, load_clicked, zoom_clicked, visible_base,
                   base_files, loaded_cache, deck_layers, pre_layers, pre_view,
                   helper_vars>>

HandleZip ==
    /\ pc = "upload"
    /\ uploaded_file # NoFile
    /\ tmp_ext(uploaded_file.name) = <<"zip">>
    /\ Apply(zip_branch(uploaded_file, user_layers, view_state))
    /\ load_button' = FALSE
    /\ gpkg_layer_select' = ""
    /\ UNCHANGED <<uploaded_file, load_clicked, zoom_clicked, visible_base,
                   base_files, loaded_cache, deck_layers, pre_layers, pre_view,
                   helper_vars>>

\* the selectbox and the button are reached only when listlayers returned
HandleGpkg ==
    /\ pc = "upload"
    /\ uploaded_file # NoFile
    /\ tmp_ext(uploaded_file.name) = <<"gpkg">>
    /\ LET listed == uploaded_file.kind = "gpkg"
           layer_sel == IF listed
                        THEN selectbox(layers_in_gpkg(uploaded_file),
                                       gpkg_layer_select)
                        ELSE ""
       IN  /\ Apply(gpkg_branch(uploaded_file, user_layers, view_state,
                                layer_sel, load_clicked))
           /\ load_button' = listed
           /\ gpkg_layer_select' = layer_sel
    /\ UNCHANGED <<uploaded_file, load_clicked, zoom_clicked, visible_base,
                   base_files, loaded_cache, deck_layers, pre_layers, pre_view,
                   helper_vars>>

-----------------------------------------------------------------------------
(* The script run: sidebar and rendering *)

Exists(path) == base_files[path] # "missing"

\* the keys of the base checkboxes the sidebar renders: the display name in
\* the two single-layer groups, every layer name in the sensitive group, and
\* only for containers whose file exists
CheckboxKeys ==
    UNION { IF ~Exists(BASE_GEOPACKAGES[i].path) THEN {}
            ELSE (IF BASE_GEOPACKAGES[i].in_env \/ BASE_GEOPACKAGES[i].in_scl
                  THEN {BASE_GEOPACKAGES[i].display_name} ELSE {})
                 \cup
                 (IF BASE_GEOPACKAGES[i].in_sensitive
                  THEN {BASE_GEOPACKAGES[i].layers[j] :
                            j \in 1..Len(BASE_GEOPACKAGES[i].layers)}
                  ELSE {}) :
            i \in 1..Len(BASE_GEOPACKAGES) }

\* the rerun st.rerun() starts: the script again from the top, no button
\* clicked
Rerun ==
    /\ pc' = "upload"
    /\ load_clicked' = FALSE
    /\ zoom_clicked' = 0
    /\ messages' = {}
    /\ raised' = {}
    /\ tmp_exists' = {}
    /\ deck_layers' = <<>>
    /\ pre_layers' = user_layers'
    /\ pre_view' = view_state'

\* the zoom button of layer idx was clicked: the view, then st.rerun()
ZoomToLayer ==
    /\ pc = "sidebar"
    /\ zoom_clicked \in 1..Len(user_layers)
    /\ view_state' = get_bounds(user_layers[zoom_clicked].data)
    /\ user_layers' = user_layers
    /\ Rerun
    /\ UNCHANGED <<uploaded_file, gpkg_layer_select, visible_base, base_files,
                   load_button, loaded_cache, helper_vars>>

\* no zoom button was clicked: on to the deck
SidebarDone ==
    /\ pc = "sidebar"
    /\ zoom_clicked \notin 1..Len(user_layers)
    /\ pc' = "render"
    /\ UNCHANGED <<user_layers, view_state, uploaded_file, gpkg_layer_select,
                   load_clicked, zoom_clicked, visible_base, base_files,
                   load_button, loaded_cache, messages, raised, tmp_exists,
                   deck_layers, pre_layers, pre_view, helper_vars>>

\* every (container, layer) of BASE_GEOPACKAGES in the order of the two loops
BaseLayerRefs ==
    LET f[i \in 0..Len(BASE_GEOPACKAGES)] ==
            IF i = 0 THEN <<>>
            ELSE f[i - 1] \o
                 [j \in 1..Len(BASE_GEOPACKAGES[i].layers) |->
                     [base |-> BASE_GEOPACKAGES[i], idx |-> j,
                      layer_name |-> BASE_GEOPACKAGES[i].layers[j]]]
    IN  f[Len(BASE_GEOPACKAGES)]

\* visible_base_layers.get(display_name, False) or .get(layer_name, False)
is_visible(ref) ==
    \/ ref.base.display_name \in (visible_base \cap CheckboxKeys)
    \/ ref.layer_name \in (visible_base \cap CheckboxKeys)

\* the base layers the render loop asks load_layer for
Requested(ref) == Exists(ref.base.path) /\ is_visible(ref)

\* a base layer as stored on disk
BaseGdf(layer_name) == Gdf(layer_name, 2, Box(-400, 10000, 0, 10400), FALSE)

load_fails(ref) == base_files[ref.base.path] = "corrupt"

\* load_layer returns a collection (TRUE), or None after st.error (FALSE)
load_layer(ref) == ~load_fails(ref)

DeckLayer(data, fill, line) ==
    [data |-> data, get_fill_color |-> fill, get_line_color |-> line]

Render ==
    /\ pc = "render"
    /\ LET refs == SelectSeq(BaseLayerRefs, Requested)
           shown == SelectSeq(refs, load_layer)
           failed == {refs[i] : i \in {k \in 1..Len(refs) : load_fails(refs[k])}}
           keyof(ref) == <<ref.base.path, ref.layer_name>>
           fresh == {refs[i] : i \in {k \in 1..Len(refs) :
                                        keyof(refs[k]) \notin loaded_cache}}
           base_deck == [i \in 1..Len(shown) |->
                            DeckLayer(smart_simplify(BaseGdf(shown[i].layer_name)),
                                      COLOR_MAP[shown[i].base.colors[shown[i].idx]],
                                      <<0, 0, 0, 255>>)]
           user_deck == [i \in 1..Len(user_layers) |->
                            DeckLayer(user_layers[i].data, user_layers[i].color,
                                      <<255, 0, 0, 255>>)]
       IN  /\ deck_layers' = base_deck \o user_deck
           /\ messages' = messages \cup {BaseError(r.layer_name) : r \in failed}
           /\ raised' = raised \cup
                          (IF failed \cap fresh # {} THEN {"base"} ELSE {})
           /\ loaded_cache' = loaded_cache \cup
                                {keyof(refs[i]) : i \in 1..Len(refs)}
    /\ pc' = "idle"
    /\ UNCHANGED <<user_layers, view_state, uploaded_file, gpkg_layer_select,
                   load_clicked, zoom_clicked, visible_base, base_files,
                   load_button, tmp_exists, pre_layers, pre_view, helper_vars>>

-----------------------------------------------------------------------------
(* The user: one widget interaction starts one run *)

BeginRun ==
    /\ pc' = "upload"
    /\ messages' = {}
    /\ raised' = {}
    /\ tmp_exists' = {}
    /\ deck_layers' = <<>>
    /\ pre_layers' = user_layers
    /\ pre_view' = view_state

UploadFile ==
    /\ pc = "idle"
    /\ \E f \in Uploads :
          /\ f # uploaded_file
          /\ uploaded_file' = f
    /\ BeginRun
    /\ load_clicked' = FALSE
    /\ zoom_clicked' = 0
    /\ UNCHANGED <<user_layers, view_state, gpkg_layer_select,
                   visible_base, base_files, load_button,
                   loaded_cache, helper_vars>>

RemoveFile ==
    /\ pc = "idle"
    /\ uploaded_file # NoFile
    /\ uploaded_file' = NoFile
    /\ BeginRun
    /\ load_clicked' = FALSE
    /\ zoom_clicked' = 0
    /\ UNCHANGED <<user_layers, view_state, gpkg_layer_select,
                   visible_base, base_files, load_button,
                   loaded_cache, helper_vars>>

SelectLayer ==
    /\ pc = "idle"
    /\ load_button
    /\ \E i \in 1..Len(uploaded_file.layers) :
          /\ uploaded_file.layers[i].layer # gpkg_layer_select
          /\ gpkg_layer_select' = uploaded_file.layers[i].layer
    /\ BeginRun
    /\ load_clicked' = FALSE
    /\ zoom_clicked' = 0
    /\ UNCHANGED <<user_layers, view_state, uploaded_file,
                   visible_base, base_files, load_button,
                   loaded_cache, helper_vars>>

ClickLoad ==
    /\ pc = "idle"
    /\ load_button
    /\ load_clicked' = TRUE
    /\ BeginRun
    /\ zoom_clicked' = 0
    /\ UNCHANGED <<user_layers, view_state, uploaded_file, gpkg_layer_select,
                   visible_base, base_files, load_button,
                   loaded_cache, helper_vars>>

ClickZoom ==
    /\ pc = "idle"
    /\ \E i \in 1..Len(user_layers) : zoom_clicked' = i
    /\ BeginRun
    /\ load_clicked' = FALSE
    /\ UNCHANGED <<user_layers, view_state, uploaded_file, gpkg_layer_select,
                   visible_base, base_files, load_button,
                   loaded_cache, helper_vars>>

ToggleBase ==
    /\ pc = "idle"
    /\ \E k \in CheckboxKeys :
          visible_base' = IF k \in visible_base THEN visible_base \ {k}
                          ELSE visible_base \cup {k}
    /\ BeginRun
    /\ load_clicked' = FALSE
    /\ zoom_clicked' = 0
    /\ UNCHANGED <<user_layers, view_state, uploaded_file, gpkg_layer_select,
                   base_files, load_button,
                   loaded_cache, helper_vars>>

-----------------------------------------------------------------------------
(* The session *)

FileStates == {"missing", "corrupt", "ok"}

\* the first run of a session: nothing uploaded, nothing ticked
Init ==
    /\ InitSession
    /\ base_files \in [BasePaths -> FileStates]
    /\ pc = "upload"
    /\ arg = <<>>
    /\ ret = <<>>
    /\ prev_arg = <<>>
    /\ prev_ret = <<>>

Next ==
    \/ UploadFile
    \/ RemoveFile
    \/ SelectLayer
    \/ ClickLoad
    \/ ClickZoom
    \/ ToggleBase
    \/ HandleNoUpload
    \/ HandleShp
    \/ HandleZip
    \/ HandleGpkg
    \/ ZoomToLayer
    \/ SidebarDone
    \/ Render

Spec == Init /\ [][Next]_vars

-----------------------------------------------------------------------------
(* Claims about the session *)

\* the upload handling of the current run is over
Handled == pc \in {"sidebar", "render", "idle"}

\* the name the current upload registers under, in the zip and shp branches
UploadIs(ext) ==
    uploaded_file # NoFile /\ tmp_ext(uploaded_file.name) = <<ext>>

IsPrefix(s, t) == Len(s) <= Len(t) /\ SubSeq(t, 1, Len(s)) = s

\* C1: no two entries of user_layers have the same name; registering a layer
\* whose name is already present keeps the first entry, data and colour, and
\* leaves the list as long as it was.
C1_UniqueNames ==
    /\ \A i, j \in 1..Len(user_layers) :
          user_layers[i].name = user_layers[j].name => i = j
    /\ IsPrefix(pre_layers, user_layers)
    /\ (Handled /\ (UploadIs("zip") \/ UploadIs("shp"))
            /\ has_layer(pre_layers, uploaded_file.name))
          => user_layers = pre_layers

\* a.zip uploaded again with other content, the first a.zip still stored
C1_Witness ==
    /\ pc = "sidebar"
    /\ uploaded_file = File(<<"a", ".", "zip">>, "zip", <<Readable("", GEmpty)>>)
    /\ \E i \in 1..Len(user_layers) :
          /\ user_layers[i].name = <<"a", ".", "zip">>
          /\ user_layers[i].data.id = "point"
          /\ user_layers[i].color = <<255, 0, 255, 180>>
    /\ Len(user_layers) = Len(pre_layers)

\* C2: a zip archive without a .shp member gives the "no .shp" error and
\* leaves the user-layer list as long as it was, whatever it held.
C2_ZipWithoutShp ==
    (Handled /\ UploadIs("zip") /\ uploaded_file.kind = "zip"
        /\ uploaded_file.layers = <<>>)
      => /\ Msg("error", "No .shp file found in the zip.", "") \in messages
         /\ Msg("error", "Error reading file", "") \notin messages
         /\ Msg("success", "loaded successfully", "") \notin messages
         /\ Len(user_layers) = Len(pre_layers)
         /\ user_layers = pre_layers

\* an archive without .shp handled while a layer is already loaded
C2_Witness ==
    /\ pc = "sidebar"
    /\ UploadIs("zip")
    /\ uploaded_file.kind = "zip"
    /\ uploaded_file.layers = <<>>
    /\ Len(user_layers) >= 1
    /\ Msg("error", "No .shp file found in the zip.", "") \in messages

\* C3: with a gpkg uploaded, a run adds a layer only when a layer is selected
\* and "Load Selected Layer" was clicked; every run without the click leaves
\* user_layers unchanged.
C3_GpkgNeedsLoad ==
    (Handled /\ UploadIs("gpkg")) =>
        /\ ~load_clicked => user_layers = pre_layers
        /\ user_layers # pre_layers =>
              /\ load_clicked
              /\ \E i \in 1..Len(uploaded_file.layers) :
                    uploaded_file.layers[i].layer = gpkg_layer_select
              /\ Len(user_layers) = Len(pre_layers) + 1
              /\ user_layers[Len(user_layers)].name =
                    uploaded_file.name \o <<"-", gpkg_layer_select>>

\* a readable layer of the gpkg is selected, the button not clicked, and the
\* layer is not in the list
C3_Witness ==
    /\ pc = "sidebar"
    /\ UploadIs("gpkg")
    /\ uploaded_file.kind = "gpkg"
    /\ gpkg_layer_select = "L1"
    /\ ~load_clicked
    /\ ~has_layer(user_layers, <<"d", ".", "gpkg", "-", "L1">>)

\* C4: every temporary directory and file an upload's handling created is
\* released on every exit path of the handling.
C4_TempReleased ==
    Handled => tmp_exists = {}

\* C7: a view is never computed from a collection without features: loading
\* a zero-feature layer fails with NoGeometry and stores no view_state made
\* from an undefined bounding box.
C7_NoViewFromEmpty ==
    /\ ~view_state.latitude.nan
    /\ ~view_state.longitude.nan
    /\ \A i \in 1..Len(user_layers) :
          user_layers[i].data.n = 0 =>
              view_state # get_bounds(user_layers[i].data)

\* the readable first layer the current run loads, if any
LoadsEntry(e) ==
    /\ uploaded_file # NoFile
    /\ \/ /\ UploadIs("shp") \/ (UploadIs("zip") /\ uploaded_file.kind = "zip")
          /\ uploaded_file.layers # <<>>
          /\ e = uploaded_file.layers[1]
       \/ /\ UploadIs("gpkg") /\ uploaded_file.kind = "gpkg" /\ load_clicked
          /\ e \in {uploaded_file.layers[i] : i \in 1..Len(uploaded_file.layers)}
          /\ e.layer = gpkg_layer_select
    /\ e.readable

\* C8: when the simplification fails the failure is a warning, nothing is
\* raised to the caller, the collection comes back with its geometry as
\* read, and the load goes on and registers it.
C8_SimplifyFailsSoft ==
    /\ \A i \in 1..Len(user_layers) :
          user_layers[i].data.simplify_raises =>
              user_layers[i].data.geometry = [simplified |-> FALSE, tolerance |-> 0]
    /\ Handled =>
          \A e \in {uploaded_file.layers[i] : i \in 1..Len(uploaded_file.layers)} :
              (LoadsEntry(e) /\ e.gdf.simplify_raises) =>
                  /\ Msg("warning", "Geometry simplification failed", "")
                        \in messages
                  /\ raised \cap {"upload"} = {}
                  /\ \A m \in messages : m.level # "error" \/ m.about # ""
                  /\ \E i \in 1..Len(user_layers) : user_layers[i].data = e.gdf

\* a collection whose simplification failed has just been registered
C8_Witness ==
    /\ pc = "sidebar"
    /\ Len(user_layers) = Len(pre_layers) + 1
    /\ user_layers[Len(user_layers)].data.simplify_raises
    /\ Msg("warning", "Geometry simplification failed", "") \in messages
    /\ Msg("success", "loaded successfully", "") \in messages

\* the base layers whose container file is missing
MissingRefs ==
    {BaseLayerRefs[i] : i \in {k \in 1..Len(BaseLayerRefs) :
                                  ~Exists(BaseLayerRefs[k].base.path)}}

\* C9: an error raised while extracting, reading, reprojecting or loading an
\* upload or a base layer is caught and shown: the run goes on to the render
\* step, user_layers is what it was before the run, and a missing base
\* container is skipped without an error.
C9_ErrorsAreNotFatal ==
    /\ pc # "crashed"
    /\ (Handled /\ "upload" \in raised) =>
          /\ user_layers = pre_layers
          /\ \E m \in messages : m.level = "error" /\ m.about = ""
    /\ (pc = "idle" /\ "base" \in raised) =>
          /\ user_layers = pre_layers
          /\ \E m \in messages : m.level = "error" /\ m.about # ""
    /\ (pc = "idle" /\ raised # {}) =>
          \A i \in 1..Len(pre_layers) :
              \E k \in 1..Len(deck_layers) :
                  deck_layers[k].data = pre_layers[i].data
    /\ \A r \in MissingRefs :
          /\ Msg("error", "Error loading", r.layer_name) \notin messages
          /\ \A k \in 1..Len(deck_layers) :
                deck_layers[k].data.id # r.layer_name

\* a run whose upload failed has rendered the layer loaded before it
C9_Witness ==
    /\ pc = "idle"
    /\ "upload" \in raised
    /\ Len(user_layers) >= 1
    /\ Len(deck_layers) >= 1
    /\ \E p \in BasePaths : base_files[p] = "missing"

\* C10: view_state changes only in a run that appends a user layer, and then
\* to get_bounds of that layer, or by a zoom button, and then to get_bounds
\* of the stored layer; an upload whose name is registered, a failed upload
\* and a base-layer toggle leave it alone.
C10_ViewChanges ==
    [][ /\ Len(user_layers') = Len(user_layers) + 1 =>
              view_state' = get_bounds(user_layers'[Len(user_layers')].data)
        /\ view_state' # view_state =>
              \/ /\ pc = "upload"
                 /\ Len(user_layers') = Len(user_layers) + 1
                 /\ ~has_layer(user_layers, user_layers'[Len(user_layers')].name)
              \/ /\ pc = "sidebar"
                 /\ zoom_clicked \in 1..Len(user_layers)
                 /\ user_layers' = user_layers
                 /\ view_state' = get_bounds(user_layers[zoom_clicked].data)
      ]_vars

\* a.zip is still in the uploader and registered, and the view is the one a
\* zoom to c.shp chose
C10_Witness ==
    /\ pc = "idle"
    /\ uploaded_file = File(<<"a", ".", "zip">>, "zip", <<Readable("", GPoint)>>)
    /\ Len(user_layers) = 2
    /\ user_layers[1].name = <<"c", ".", "shp">>
    /\ user_layers[2].name = <<"a", ".", "zip">>
    /\ user_layers[2].data.id = "point"
    /\ view_state = get_bounds(user_layers[1].data)
    /\ view_state # get_bounds(user_layers[2].data)

====
